---- MODULE Spec2Model ----
(***************************************************************************)
(* BankingEmployeeSimulator (src/SettingUpDummyEnv.py): the scheduler loop *)
(* simulate_work_day, start_simulation / stop_simulation, the units of     *)
(* work, and main()'s interrupt handling.                                  *)
(*                                                                         *)
(* The main thread runs main() -> start_simulation -> simulate_work_day.   *)
(* A KeyboardInterrupt can be raised in the main thread at any position.   *)
(* A second thread may call stop_simulation at any time.                   *)
(*                                                                         *)
(* Spec        the simulator with __init__'s default employee              *)
(* SpecMain    main()'s simulator for any employee of its roster, in the   *)
(*             runs where no unit of work raises                           *)
(* SpecLive    the runs with no KeyboardInterrupt, main thread fair        *)
(* SpecRestart a further thread calls start_simulation while the loop runs *)
(* Time is counted in whole seconds; a sleep holds the seconds it has left.*)
(***************************************************************************)
EXTENDS Integers, Sequences, FiniteSets, TLC

\* ------------------------------------------------------------- bounds
\* loop iterations explored
MaxIter == 2
\* KeyboardInterrupts delivered to the main thread
MaxInterrupts == 1
\* stop_simulation calls made by the second thread
MaxStops == 1
\* granularity at which a sleep in progress is observed, in seconds
TickStep == 900

\* ------------------------------------------------- program constants
WorkStartHour == 9
WorkEndHour == 17
WorkPauseMin == 30
WorkPauseMax == 300
AfterPauseMin == 300
AfterPauseMax == 1800
BackoffSeconds == 60
\* random.randint(100, 200): the last octet of a record's ip_address
IpMin == 100
IpMax == 200

VARIABLES
    is_running,      \* self.is_running
    pc,              \* position of the main thread
    caller,          \* which except clause called stop_simulation: none/start/main
    current_hour,    \* local current_hour of simulate_work_day, from its read
                     \* at line 353 to its only use, the test of line 354
                     \* (-1 outside)
    regime,          \* branch taken by the iteration: none/WorkHours/AfterHours
    activity,        \* unit of work being executed, or "none"
    stepIdx,         \* position inside the unit of work (index into Steps)
    executed,        \* units of work begun in the current iteration
    failed,          \* an Exception was raised inside the unit of work of the
                     \* current iteration
    sleepLeft,       \* seconds left of the time.sleep in progress
    iters,           \* iterations begun
    units,           \* units of work begun since construction
    failures,        \* of these, the ones in which an Exception was raised
    t2Pc,            \* a further thread calling start_simulation: its position
    t2Activity,      \* the unit of work that thread's loop is executing
    t2Iters,         \* iterations begun by that thread's loop
    employee_name,   \* self.employee_name
    department,      \* self.department
    now,             \* generate_daily_report: what datetime.now() returned at
                     \* line 393 (<<>> outside the call)
    report,          \* the report built by generate_daily_report and returned
                     \* to main() (<<>> when there is none)
    log,             \* banking_simulation.log, one tag per line
    stdout,          \* what main() printed after the banner
    security_events, \* the records of security_events.log, oldest first
    interrupts,      \* KeyboardInterrupts delivered so far
    firstInt,        \* where the first of them found the main thread:
                     \* none / try / workday / main / handler
    extPc,           \* second thread: idle / stop_log (inside stop_simulation)
    stops,           \* stop_simulation calls begun by the second thread
    sinceStop        \* seconds elapsed since the second thread called
                     \* stop_simulation during the pause in progress (-1: no
                     \* such call)

vars == <<is_running, pc, caller, current_hour, regime, activity, stepIdx,
          executed, failed, sleepLeft, iters, log, stdout, security_events,
          interrupts, firstInt, extPc, stops, sinceStop, units, failures,
          t2Pc, t2Activity, t2Iters, employee_name, department, now, report>>

\* the locals of the loop
loopVars == <<current_hour, regime, activity, stepIdx, executed, failed,
              sleepLeft, iters>>

\* the sinks
outVars == <<log, stdout, security_events>>

\* the simulator's identity and the report of generate_daily_report
repVars == <<employee_name, department, now, report>>

\* the thread that calls start_simulation while the main thread may be in it
t2Vars == <<t2Pc, t2Activity, t2Iters>>

\* the tallies of units of work
cntVars == <<units, failures>>

\* what the main thread's own steps never touch
extVars == <<interrupts, firstInt, extPc, stops>>

\* ------------------------------------------------------------ helpers
ActivityCategory == {"file", "app", "network", "security"}

\* work_activities, weights in tenths
work_activities ==
    << <<"file", 4>>, <<"app", 3>>, <<"network", 2>>, <<"security", 1>> >>

activities == [i \in 1..Len(work_activities) |-> work_activities[i][1]]

weights == [i \in 1..Len(work_activities) |-> work_activities[i][2]]

\* random.choices(population, weights=w)[0]: any member of positive weight
choices(population, w) ==
    {population[i] : i \in {j \in 1..Len(population) : w[j] > 0}}

regime_forMut(h) ==
    IF WorkStartHour <= h /\ h < WorkEndHour THEN "WorkHours" ELSE "AfterHours"

\* the test of line 354
regime_for(h) ==
    IF WorkStartHour <= h /\ h <= WorkEndHour THEN "WorkHours" ELSE "AfterHours"

AfterHoursEligibleMut == {activities[i] : i \in 1..Len(activities)}

\* what the after-hours branch may run (line 365)
AfterHoursEligible == {"security"}

\* the steps of each unit of work, in the order of the code
Steps(a) ==
    CASE a = "file"     -> <<"io", "log", "dwell">>
      [] a = "app"      -> <<"log", "dwell">>
      [] a = "network"  -> <<"log", "dwell">>
      [] a = "security" -> <<"log", "io", "dwell">>

\* time.sleep(random.uniform(lo, hi)) of each unit of work: the extremes
DwellTimes(a) ==
    CASE a = "file"     -> {1, 20}
      [] a = "app"      -> {1, 15}
      [] a = "network"  -> {1, 5}
      [] a = "security" -> {2, 4}

\* random.uniform(30, 300) / random.uniform(300, 1800): the extremes
\* one pause for both regimes
PauseTimesMut(r) == {WorkPauseMin, WorkPauseMax}

PauseTimes(r) ==
    IF r = "WorkHours" THEN {WorkPauseMin, WorkPauseMax}
                       ELSE {AfterPauseMin, AfterPauseMax}

\* the locals of simulate_work_day before the first iteration and after it
\* has returned or been left by an exception
NoLocals ==
    /\ current_hour' = -1
    /\ regime' = "none"
    /\ activity' = "none"
    /\ stepIdx' = 0
    /\ executed' = <<>>
    /\ failed' = FALSE
    /\ sleepLeft' = 0

Count(s, x) == Cardinality({i \in 1..Len(s) : s[i] = x})

\* the roster of main()
employees ==
    << <<"Sarah Chen", "Finance">>,
       <<"Michael Rodriguez", "Risk Management">>,
       <<"Jennifer Miller", "Compliance">>,
       <<"David Wilson", "IT">>,
       <<"Lisa Thompson", "Operations">> >>

\* random.randint(a, b), a <= N <= b: its two extremes
randintMut(a, b) == {a, b + 1}

randint(a, b) == {a, b}

\* the least (k = "low") or the greatest (k = "high") element of S
Extreme(S, k) ==
    CHOOSE x \in S : \A y \in S : IF k = "low" THEN x <= y ELSE x >= y

\* the random draws of a report, all at their least or all at their
\* greatest; work_hours, round(uniform(7.5, 9.0), 1), in tenths of an hour
ReportDraws ==
    {[files_created |-> Extreme(randint(5, 15), k),
      applications_used |-> Extreme(randint(3, 8), k),
      network_activities |-> Extreme(randint(10, 25), k),
      security_events |-> Extreme(randint(2, 8), k),
      work_hours |-> Extreme({75, 90}, k),
      suspicious_activities |-> Extreme(randint(0, 2), k)] : k \in {"low", "high"}}

\* values of datetime.now(): the last hour of a year, the first of the next
Clock ==
    {[year |-> 2024, month |-> 12, day |-> 31, hour |-> 23],
     [year |-> 2025, month |-> 1, day |-> 1, hour |-> 0]}

\* t.strftime('%Y-%m-%d'), as the three numbers the text is made of
strftime(t) == <<t.year, t.month, t.day>>

\* the dict of lines 392-402
daily_report(t, d) ==
    [date |-> strftime(t),
     employee |-> employee_name,
     department |-> department,
     files_created |-> d.files_created,
     applications_used |-> d.applications_used,
     network_activities |-> d.network_activities,
     security_events |-> d.security_events,
     work_hours |-> d.work_hours,
     suspicious_activities |-> d.suspicious_activities]

\* ---------------------------------------------------------------- Init
Constructed(e) ==
    /\ employee_name = e[1]
    /\ department = e[2]
    /\ now = <<>>
    /\ report = <<>>
    /\ is_running = FALSE
    /\ pc = "main"
    /\ caller = "none"
    /\ current_hour = -1
    /\ regime = "none"
    /\ activity = "none"
    /\ stepIdx = 0
    /\ executed = <<>>
    /\ failed = FALSE
    /\ sleepLeft = 0
    /\ iters = 0
    /\ units = 0
    /\ failures = 0
    /\ t2Pc = "idle"
    /\ t2Activity = "none"
    /\ t2Iters = 0
    /\ log = <<"setup">>
    /\ stdout = <<>>
    /\ security_events = <<>>
    /\ interrupts = 0
    /\ firstInt = "none"
    /\ extPc = "idle"
    /\ stops = 0
    /\ sinceStop = -1

\* BankingEmployeeSimulator(): the defaults of __init__
Init == Constructed(<<"Sarah Chen", "Finance">>)

\* main(): simulator = BankingEmployeeSimulator(*random.choice(employees))
InitMain == \E i \in 1..Len(employees) : Constructed(employees[i])

\* ------------------------------------------------- main thread: start
\* main() line 434: call start_simulation
MainCall ==
    /\ pc = "main"
    /\ pc' = "start_set"
    /\ UNCHANGED <<is_running, caller, sinceStop>>
    /\ UNCHANGED <<loopVars, outVars, extVars>>
    /\ UNCHANGED cntVars
    /\ UNCHANGED t2Vars
    /\ UNCHANGED repVars

\* line 377
StartSet ==
    /\ pc = "start_set"
    /\ is_running' = TRUE
    /\ pc' = "start_log"
    /\ sinceStop' = -1
    /\ UNCHANGED caller
    /\ UNCHANGED <<loopVars, outVars, extVars>>
    /\ UNCHANGED cntVars
    /\ UNCHANGED t2Vars
    /\ UNCHANGED repVars

\* line 378, then the call of simulate_work_day (lines 381, 336-348)
StartLog ==
    /\ pc = "start_log"
    /\ log' = Append(log, "starting")
    /\ pc' = "loop_check"
    /\ UNCHANGED <<is_running, caller, sinceStop, stdout, security_events>>
    /\ UNCHANGED <<loopVars, extVars>>
    /\ UNCHANGED cntVars
    /\ UNCHANGED t2Vars
    /\ UNCHANGED repVars

\* ------------------------------------------- main thread: the loop
\* line 350, the flag is true: enter the try block of a new iteration
LoopEnter ==
    /\ pc = "loop_check"
    /\ is_running
    /\ iters < MaxIter
    /\ failed' = FALSE
    /\ iters' = iters + 1
    /\ executed' = <<>>
    /\ regime' = "none"
    /\ pc' = "decide"
    /\ UNCHANGED <<is_running, caller, sinceStop, current_hour, activity,
                   stepIdx, sleepLeft>>
    /\ UNCHANGED <<outVars, extVars>>
    /\ UNCHANGED cntVars
    /\ UNCHANGED t2Vars
    /\ UNCHANGED repVars

\* line 350, the flag is false: simulate_work_day returns, and
\* start_simulation returns after it (line 381)
\* a loop that ends on the flag being set rather than cleared
LoopExitMut ==
    /\ pc = "loop_check"
    /\ is_running
    /\ pc' = "start_returned"
    /\ NoLocals
    /\ UNCHANGED <<is_running, caller, sinceStop, iters>>
    /\ UNCHANGED <<outVars, extVars, cntVars, t2Vars, repVars>>

LoopExit ==
    /\ pc = "loop_check"
    /\ ~is_running
    /\ pc' = "start_returned"
    /\ NoLocals
    /\ UNCHANGED <<is_running, caller, sinceStop, iters>>
    /\ UNCHANGED <<outVars, extVars>>
    /\ UNCHANGED cntVars
    /\ UNCHANGED t2Vars
    /\ UNCHANGED repVars

\* lines 353-354 and 362: read the hour, take the branch
Decide ==
    /\ pc = "decide"
    /\ UNCHANGED failed
    /\ \E h \in 0..23 :
         /\ current_hour' = h
         /\ regime' = regime_for(h)
         /\ pc' = IF regime_for(h) = "WorkHours" THEN "select" ELSE "after_flip"
    /\ UNCHANGED <<is_running, caller, sinceStop, activity, stepIdx, executed,
                   sleepLeft, iters>>
    /\ UNCHANGED <<outVars, extVars>>
    /\ UNCHANGED cntVars
    /\ UNCHANGED t2Vars
    /\ UNCHANGED repVars

\* lines 356-357: weighted choice, then the call of the unit of work
Select ==
    /\ pc = "select"
    /\ UNCHANGED failed
    /\ \E a \in choices(activities, weights) :
         /\ activity' = a
         /\ executed' = Append(executed, a)
    /\ stepIdx' = 1
    /\ pc' = "act"
    /\ current_hour' = -1
    /\ UNCHANGED <<is_running, caller, sinceStop, regime, sleepLeft, iters>>
    /\ UNCHANGED <<outVars, extVars>>
    /\ units' = units + 1
    /\ UNCHANGED failures
    /\ UNCHANGED t2Vars
    /\ UNCHANGED repVars

\* lines 364-365: random.random() < 0.1, the security action is called
AfterFlipRun ==
    /\ pc = "after_flip"
    /\ UNCHANGED failed
    /\ \E a \in AfterHoursEligible :
         /\ activity' = a
         /\ executed' = Append(executed, a)
    /\ stepIdx' = 1
    /\ pc' = "act"
    /\ current_hour' = -1
    /\ UNCHANGED <<is_running, caller, sinceStop, regime, sleepLeft, iters>>
    /\ UNCHANGED <<outVars, extVars>>
    /\ units' = units + 1
    /\ UNCHANGED failures
    /\ UNCHANGED t2Vars
    /\ UNCHANGED repVars

\* lines 364, 366: random.random() >= 0.1, straight to the pause
AfterFlipIdle ==
    /\ pc = "after_flip"
    /\ UNCHANGED failed
    /\ \E d \in PauseTimes(regime) : sleepLeft' = d
    /\ pc' = "pace"
    /\ current_hour' = -1
    /\ UNCHANGED <<is_running, caller, sinceStop, regime, activity, stepIdx,
                   executed, iters>>
    /\ UNCHANGED <<outVars, extVars>>
    /\ UNCHANGED cntVars
    /\ UNCHANGED t2Vars
    /\ UNCHANGED repVars

\* --------------------------------------- main thread: units of work
CurStep == IF pc = "act" THEN Steps(activity)[stepIdx] ELSE "none"

\* the sleep a unit of work starts when its next step is the dwell
\* the record of a security action; ip_address is the text
\* "192.168.1.<n>", kept as its four octets
security_log(n) == [result |-> "Success", ip_address |-> <<192, 168, 1, n>>]

NextDwell(a, i) ==
    IF Steps(a)[i + 1] = "dwell" THEN DwellTimes(a) ELSE {0}

\* the file write of a file operation (lines 116-117, 139-140, 172-173,
\* 202-203, 211, 245-246) or the append to security_events.log (329-330)
ActIO ==
    /\ pc = "act"
    /\ CurStep = "io"
    /\ UNCHANGED failed
    /\ IF activity = "security"
         THEN \E n \in {IpMin, IpMax} :
                 security_events' = Append(security_events, security_log(n))
         ELSE UNCHANGED security_events
    /\ stepIdx' = stepIdx + 1
    /\ \E d \in NextDwell(activity, stepIdx) : sleepLeft' = d
    /\ UNCHANGED <<is_running, pc, caller, sinceStop, current_hour, regime,
                   activity, executed, iters, log, stdout>>
    /\ UNCHANGED extVars
    /\ UNCHANGED cntVars
    /\ UNCHANGED t2Vars
    /\ UNCHANGED repVars

\* the logger.info line of the unit of work (119, 142, 175, 205, 224, 248,
\* 259-281, 299, 316)
ActLog ==
    /\ pc = "act"
    /\ CurStep = "log"
    /\ UNCHANGED failed
    /\ log' = Append(log, activity)
    /\ stepIdx' = stepIdx + 1
    /\ \E d \in NextDwell(activity, stepIdx) : sleepLeft' = d
    /\ UNCHANGED <<is_running, pc, caller, sinceStop, current_hour, regime,
                   activity, executed, iters, stdout, security_events>>
    /\ UNCHANGED extVars
    /\ UNCHANGED cntVars
    /\ UNCHANGED t2Vars
    /\ UNCHANGED repVars

\* the dwell is over: the unit of work returns and the pause of the branch
\* begins (lines 360-361, 366)
ActReturn ==
    /\ pc = "act"
    /\ CurStep = "dwell"
    /\ sleepLeft = 0
    /\ UNCHANGED failed
    /\ \E d \in PauseTimes(regime) : sleepLeft' = d
    /\ activity' = "none"
    /\ stepIdx' = 0
    /\ pc' = "pace"
    /\ UNCHANGED <<is_running, caller, sinceStop, current_hour, regime,
                   executed, iters>>
    /\ UNCHANGED <<outVars, extVars>>
    /\ UNCHANGED cntVars
    /\ UNCHANGED t2Vars
    /\ UNCHANGED repVars

\* an Exception raised inside a unit of work other than application usage
\* leaves the unit and reaches line 371
ActFail ==
    /\ pc = "act"
    /\ activity # "app"
    /\ failed' = TRUE
    /\ activity' = "none"
    /\ stepIdx' = 0
    /\ sleepLeft' = 0
    /\ pc' = "err_handler"
    /\ UNCHANGED <<is_running, caller, sinceStop, current_hour, regime,
                   executed, iters>>
    /\ UNCHANGED <<outVars, extVars>>
    /\ failures' = failures + 1
    /\ UNCHANGED units
    /\ UNCHANGED t2Vars
    /\ UNCHANGED repVars

\* an Exception raised inside the try block of simulate_application_usage
\* is caught at line 284, logged at 285, and the unit returns normally
AppFail ==
    /\ pc = "act"
    /\ activity = "app"
    /\ failed' = TRUE
    /\ log' = Append(log, "app_error")
    /\ \E d \in PauseTimes(regime) : sleepLeft' = d
    /\ activity' = "none"
    /\ stepIdx' = 0
    /\ pc' = "pace"
    /\ UNCHANGED <<is_running, caller, sinceStop, current_hour, regime,
                   executed, iters, stdout, security_events>>
    /\ UNCHANGED extVars
    /\ failures' = failures + 1
    /\ UNCHANGED units
    /\ UNCHANGED t2Vars
    /\ UNCHANGED repVars

\* ------------------------------------- main thread: sleeps and handlers
Sleeping == pc \in {"pace", "backoff"} \/ CurStep = "dwell"

\* time passes while the main thread is inside time.sleep
Elapse ==
    /\ Sleeping
    /\ sleepLeft > 0
    /\ UNCHANGED failed
    /\ \E k \in {sleepLeft} \cup {x \in {TickStep} : x < sleepLeft} :
         /\ sleepLeft' = sleepLeft - k
         /\ sinceStop' = IF sinceStop >= 0 THEN sinceStop + k ELSE sinceStop
    /\ UNCHANGED <<is_running, pc, caller, current_hour, regime, activity,
                   stepIdx, executed, iters>>
    /\ UNCHANGED <<outVars, extVars>>
    /\ UNCHANGED cntVars
    /\ UNCHANGED t2Vars
    /\ UNCHANGED repVars

\* the pause of lines 361 / 366 is over: back to line 350
PaceReturn ==
    /\ pc = "pace"
    /\ sleepLeft = 0
    /\ pc' = "loop_check"
    /\ UNCHANGED <<is_running, caller, sinceStop>>
    /\ UNCHANGED <<loopVars, outVars, extVars>>
    /\ UNCHANGED cntVars
    /\ UNCHANGED t2Vars
    /\ UNCHANGED repVars

\* lines 368-370: log, break; simulate_work_day and start_simulation return
KbdHandler ==
    /\ pc = "kbd_handler"
    /\ log' = Append(log, "interrupted")
    /\ pc' = "start_returned"
    /\ NoLocals
    /\ UNCHANGED <<is_running, caller, sinceStop, iters, stdout, security_events>>
    /\ UNCHANGED extVars
    /\ UNCHANGED cntVars
    /\ UNCHANGED t2Vars
    /\ UNCHANGED repVars

\* lines 371-373: log the error, begin time.sleep(60)
\* a handler that backs off without writing the error line
ErrHandlerMut ==
    /\ pc = "err_handler"
    /\ sleepLeft' = BackoffSeconds
    /\ pc' = "backoff"
    /\ UNCHANGED <<is_running, caller, sinceStop, current_hour, regime,
                   activity, stepIdx, executed, failed, iters>>
    /\ UNCHANGED <<outVars, extVars, cntVars>>
    /\ UNCHANGED t2Vars
    /\ UNCHANGED repVars

ErrHandler ==
    /\ pc = "err_handler"
    /\ UNCHANGED failed
    /\ log' = Append(log, "error")
    /\ sleepLeft' = BackoffSeconds
    /\ pc' = "backoff"
    /\ UNCHANGED <<is_running, caller, sinceStop, current_hour, regime,
                   activity, stepIdx, executed, iters, stdout, security_events>>
    /\ UNCHANGED extVars
    /\ UNCHANGED cntVars
    /\ UNCHANGED t2Vars
    /\ UNCHANGED repVars

\* time.sleep(60) is over: back to line 350
BackoffReturn ==
    /\ pc = "backoff"
    /\ sleepLeft = 0
    /\ pc' = "loop_check"
    /\ UNCHANGED <<is_running, caller, sinceStop>>
    /\ UNCHANGED <<loopVars, outVars, extVars>>
    /\ UNCHANGED cntVars
    /\ UNCHANGED t2Vars
    /\ UNCHANGED repVars

\* ------------------------------- main thread: stop_simulation, main()
\* line 387, called from the except clause of line 382 or of line 435
StopSet ==
    /\ pc = "stop_set"
    /\ is_running' = FALSE
    /\ pc' = "stop_log"
    /\ UNCHANGED <<caller, sinceStop>>
    /\ UNCHANGED <<loopVars, outVars, extVars>>
    /\ UNCHANGED cntVars
    /\ UNCHANGED t2Vars
    /\ UNCHANGED repVars

\* line 388; then back in the except clause that made the call
StopLog ==
    /\ pc = "stop_log"
    /\ log' = Append(log, "stopped")
    /\ pc' = IF caller = "start" THEN "start_returned" ELSE "main_gen"
    /\ UNCHANGED <<is_running, caller, sinceStop, stdout, security_events>>
    /\ UNCHANGED <<loopVars, extVars>>
    /\ UNCHANGED cntVars
    /\ UNCHANGED t2Vars
    /\ UNCHANGED repVars

\* start_simulation has returned normally: the try of line 432 ends without
\* an exception and main() returns
MainReturn ==
    /\ pc = "start_returned"
    /\ pc' = "done"
    /\ sinceStop' = -1
    /\ UNCHANGED <<is_running, caller>>
    /\ UNCHANGED <<loopVars, outVars, extVars>>
    /\ UNCHANGED cntVars
    /\ UNCHANGED t2Vars
    /\ UNCHANGED repVars

\* lines 435-437: print, call stop_simulation
MainExcept ==
    /\ pc = "main_except"
    /\ stdout' = Append(stdout, "stopping")
    /\ caller' = "main"
    /\ pc' = "stop_set"
    /\ UNCHANGED <<is_running, sinceStop, log, security_events>>
    /\ UNCHANGED <<loopVars, extVars>>
    /\ UNCHANGED cntVars
    /\ UNCHANGED t2Vars
    /\ UNCHANGED repVars

\* line 440
MainGen ==
    /\ pc = "main_gen"
    /\ stdout' = Append(stdout, "generating")
    /\ pc' = "report_io"
    /\ UNCHANGED <<is_running, caller, sinceStop, log, security_events>>
    /\ UNCHANGED <<loopVars, extVars>>
    /\ UNCHANGED cntVars
    /\ UNCHANGED t2Vars
    /\ UNCHANGED repVars

\* generate_daily_report, lines 392-406: build the report, write its file
ReportIO ==
    /\ pc = "report_io"
    /\ \E t \in Clock, d \in ReportDraws :
         /\ now' = <<t>>
         /\ report' = <<daily_report(t, d)>>
    /\ pc' = "report_log"
    /\ UNCHANGED <<employee_name, department>>
    /\ UNCHANGED <<is_running, caller, sinceStop>>
    /\ UNCHANGED <<loopVars, outVars, extVars>>
    /\ UNCHANGED cntVars
    /\ UNCHANGED t2Vars

\* the write of lines 405-406 raises: nothing catches it, main() ends by it
ReportFail ==
    /\ pc = "report_io"
    /\ pc' = "crashed"
    /\ UNCHANGED <<is_running, caller, sinceStop>>
    /\ UNCHANGED <<loopVars, outVars, extVars>>
    /\ UNCHANGED cntVars
    /\ UNCHANGED t2Vars
    /\ UNCHANGED repVars

\* lines 408-409
ReportLog ==
    /\ pc = "report_log"
    /\ log' = Append(log, "report")
    /\ pc' = "main_print"
    /\ UNCHANGED <<is_running, caller, sinceStop, stdout, security_events>>
    /\ UNCHANGED <<loopVars, extVars>>
    /\ UNCHANGED cntVars
    /\ UNCHANGED t2Vars
    /\ UNCHANGED repVars

\* line 442; main() returns
MainPrint ==
    /\ pc = "main_print"
    /\ stdout' = Append(stdout, "report")
    /\ now' = <<>>
    /\ report' = <<>>
    /\ pc' = "done"
    /\ UNCHANGED <<employee_name, department>>
    /\ UNCHANGED <<is_running, caller, sinceStop, log, security_events>>
    /\ UNCHANGED <<loopVars, extVars>>
    /\ UNCHANGED cntVars
    /\ UNCHANGED t2Vars

\* --------------------------------------------------- KeyboardInterrupt
\* positions inside the try block of lines 351-366
InLoopTry == {"decide", "select", "after_flip", "act", "pace"}

\* positions inside simulate_work_day but outside that try block
InWorkDay == {"loop_check", "kbd_handler", "err_handler", "backoff"}

\* positions of main()'s try block outside the try of start_simulation
InMainTry == {"main", "start_set", "start_log", "start_returned"}

\* positions inside main()'s except clause
InMainExcept == {"main_except", "main_gen", "report_io", "report_log", "main_print"}

\* start_simulation without its except clause
InterruptTargetMut(p, c) ==
    CASE p \in InLoopTry -> "kbd_handler"
      [] p \in InWorkDay \cup InMainTry -> "main_except"
      [] OTHER -> "crashed"

\* where a KeyboardInterrupt raised at position p lands: the innermost
\* enclosing except KeyboardInterrupt (368, 382, 435), or none
InterruptTarget(p, c) ==
    CASE p \in InLoopTry -> "kbd_handler"
      [] p \in InWorkDay -> "stop_set"
      [] p \in InMainTry -> "main_except"
      [] p \in {"stop_set", "stop_log"} /\ c = "start" -> "main_except"
      [] OTHER -> "crashed"

\* the try blocks around position p
InterruptClass(p) ==
    CASE p \in InLoopTry -> "try"
      [] p \in InWorkDay -> "workday"
      [] p \in InMainTry -> "main"
      [] OTHER -> "handler"

\* a KeyboardInterrupt is raised in the main thread
Interrupt ==
    /\ pc \notin {"done", "crashed"}
    /\ interrupts < MaxInterrupts
    /\ interrupts' = interrupts + 1
    /\ firstInt' = IF firstInt = "none" THEN InterruptClass(pc) ELSE firstInt
    /\ pc' = InterruptTarget(pc, caller)
    /\ caller' = IF pc \in InWorkDay THEN "start" ELSE caller
    /\ IF pc \in InLoopTry
       THEN /\ activity' = "none"
            /\ stepIdx' = 0
            /\ sleepLeft' = 0
            /\ UNCHANGED <<current_hour, regime, executed, failed>>
       ELSE NoLocals
    /\ sinceStop' = -1
    /\ UNCHANGED <<is_running, iters>>
    /\ UNCHANGED <<outVars, extPc, stops>>
    /\ UNCHANGED cntVars
    /\ UNCHANGED t2Vars
    /\ UNCHANGED repVars

\* ------------------------------------------------------- second thread
\* stop_simulation line 387, called from another thread
ExtStopSet ==
    /\ extPc = "idle"
    /\ stops < MaxStops
    /\ pc \notin {"done", "crashed"}
    /\ stops' = stops + 1
    /\ is_running' = FALSE
    /\ extPc' = "stop_log"
    /\ sinceStop' = IF pc = "pace" /\ sinceStop < 0 THEN 0 ELSE sinceStop
    /\ UNCHANGED <<pc, caller, interrupts, firstInt>>
    /\ UNCHANGED <<loopVars, outVars>>
    /\ UNCHANGED cntVars
    /\ UNCHANGED t2Vars
    /\ UNCHANGED repVars

\* stop_simulation line 388, in the other thread
ExtStopLog ==
    /\ extPc = "stop_log"
    /\ log' = Append(log, "stopped")
    /\ extPc' = "idle"
    /\ UNCHANGED <<is_running, pc, caller, sinceStop, stdout, security_events,
                   interrupts, firstInt, stops>>
    /\ UNCHANGED loopVars
    /\ UNCHANGED cntVars
    /\ UNCHANGED t2Vars
    /\ UNCHANGED repVars

\* ------------------------------- a further caller of start_simulation
\* A thread other than the main one calls start_simulation on the same
\* simulator while the main thread is in its loop.  Its loop is the code of the main thread's loop; a unit of
\* work is one step here, and raises nothing; the flag is not cleared in
\* the runs this thread takes part in, so its loop does not end.
T2Call ==
    /\ t2Pc = "idle"
    /\ is_running
    /\ pc \in InLoopTry \cup InWorkDay
    /\ t2Pc' = "start_set"
    /\ UNCHANGED <<is_running, pc, caller, sinceStop, t2Activity, t2Iters>>
    /\ UNCHANGED <<loopVars, outVars, extVars, cntVars>>
    /\ UNCHANGED repVars

\* self.is_running = True
T2StartSet ==
    /\ t2Pc = "start_set"
    /\ is_running' = TRUE
    /\ sinceStop' = -1
    /\ t2Pc' = "start_log"
    /\ UNCHANGED <<pc, caller, t2Activity, t2Iters>>
    /\ UNCHANGED <<loopVars, outVars, extVars, cntVars>>
    /\ UNCHANGED repVars

\* logger.info("Starting banking employee simulation"), simulate_work_day()
T2StartLog ==
    /\ t2Pc = "start_log"
    /\ log' = Append(log, "starting")
    /\ t2Pc' = "loop_check"
    /\ UNCHANGED <<is_running, pc, caller, sinceStop, stdout, security_events,
                   t2Activity, t2Iters>>
    /\ UNCHANGED <<loopVars, extVars, cntVars>>
    /\ UNCHANGED repVars

\* while self.is_running: the hour, the branch and the selection
T2LoopEnter ==
    /\ t2Pc = "loop_check"
    /\ is_running
    /\ t2Iters < MaxIter
    /\ t2Iters' = t2Iters + 1
    /\ \E h \in 0..23 :
         \/ /\ regime_for(h) = "WorkHours"
            /\ \E a \in choices(activities, weights) : t2Activity' = a
            /\ units' = units + 1
            /\ t2Pc' = "act"
         \/ /\ regime_for(h) = "AfterHours"
            /\ \E a \in AfterHoursEligible : t2Activity' = a
            /\ units' = units + 1
            /\ t2Pc' = "act"
         \/ /\ regime_for(h) = "AfterHours"
            /\ UNCHANGED <<t2Activity, units>>
            /\ t2Pc' = "pace"
    /\ UNCHANGED <<is_running, pc, caller, sinceStop, failures>>
    /\ UNCHANGED <<loopVars, outVars, extVars>>
    /\ UNCHANGED repVars

\* activity(): the unit's line in the log, the security action's record
T2Act ==
    /\ t2Pc = "act"
    /\ log' = Append(log, t2Activity)
    /\ IF t2Activity = "security"
         THEN \E n \in {IpMin, IpMax} :
                 security_events' = Append(security_events, security_log(n))
         ELSE UNCHANGED security_events
    /\ t2Activity' = "none"
    /\ t2Pc' = "pace"
    /\ UNCHANGED <<is_running, pc, caller, sinceStop, stdout, t2Iters>>
    /\ UNCHANGED <<loopVars, extVars, cntVars>>
    /\ UNCHANGED repVars

\* the pause is over
T2PaceReturn ==
    /\ t2Pc = "pace"
    /\ t2Pc' = "loop_check"
    /\ UNCHANGED <<is_running, pc, caller, sinceStop, t2Activity, t2Iters>>
    /\ UNCHANGED <<loopVars, outVars, extVars, cntVars>>
    /\ UNCHANGED repVars

\* ----------------------------------------------------- specification
Next ==
    \/ MainCall \/ StartSet \/ StartLog
    \/ LoopEnter \/ LoopExit \/ Decide \/ Select
    \/ AfterFlipRun \/ AfterFlipIdle
    \/ ActIO \/ ActLog \/ ActReturn \/ ActFail \/ AppFail
    \/ Elapse \/ PaceReturn \/ KbdHandler \/ ErrHandler \/ BackoffReturn
    \/ StopSet \/ StopLog \/ MainReturn
    \/ MainExcept \/ MainGen \/ ReportIO \/ ReportFail \/ ReportLog \/ MainPrint
    \/ Interrupt
    \/ ExtStopSet \/ ExtStopLog

Spec == Init /\ [][Next]_vars

\* the program with a further caller of start_simulation, in the runs
\* where no KeyboardInterrupt is raised and stop_simulation is not called
NextRestart ==
    \/ MainCall \/ StartSet \/ StartLog
    \/ LoopEnter \/ Decide \/ Select
    \/ AfterFlipRun \/ AfterFlipIdle
    \/ ActIO \/ ActLog \/ ActReturn \/ ActFail \/ AppFail
    \/ Elapse \/ PaceReturn \/ ErrHandler \/ BackoffReturn
    \/ T2Call \/ T2StartSet \/ T2StartLog
    \/ T2LoopEnter \/ T2Act \/ T2PaceReturn

SpecRestart == Init /\ [][NextRestart]_vars

\* the steps of the main thread while no KeyboardInterrupt is raised
MainStep ==
    \/ MainCall \/ StartSet \/ StartLog
    \/ LoopEnter \/ LoopExit \/ Decide \/ Select
    \/ AfterFlipRun \/ AfterFlipIdle
    \/ ActIO \/ ActLog \/ ActReturn \/ ActFail \/ AppFail
    \/ Elapse \/ PaceReturn \/ ErrHandler \/ BackoffReturn
    \/ MainReturn

\* the runs with no KeyboardInterrupt
NextStop == MainStep \/ ExtStopSet \/ ExtStopLog

\* the main thread keeps running: a unit of work, a sleep, a log call ends
SpecLive == Init /\ [][NextStop]_vars /\ WF_vars(MainStep)

\* the program as main() runs it, for any employee of the roster, in the
\* runs where no unit of work raises
NextMain ==
    \/ MainCall \/ StartSet \/ StartLog
    \/ LoopEnter \/ LoopExit \/ Decide \/ Select
    \/ AfterFlipRun \/ AfterFlipIdle
    \/ ActIO \/ ActLog \/ ActReturn
    \/ Elapse \/ PaceReturn \/ KbdHandler
    \/ StopSet \/ StopLog \/ MainReturn
    \/ MainExcept \/ MainGen \/ ReportIO \/ ReportFail \/ ReportLog \/ MainPrint
    \/ Interrupt
    \/ ExtStopSet \/ ExtStopLog

SpecMain == InitMain /\ [][NextMain]_vars

TypeOK ==
    /\ is_running \in BOOLEAN
    /\ current_hour \in -1..23
    /\ regime \in {"none", "WorkHours", "AfterHours"}
    /\ activity \in ActivityCategory \cup {"none"}
    /\ sleepLeft >= 0
    /\ iters \in 0..MaxIter
    /\ units \in 0..(2 * MaxIter)
    /\ t2Pc \in {"idle", "start_set", "start_log", "loop_check", "act",
                 "pace"}
    /\ t2Activity \in ActivityCategory \cup {"none"}
    /\ t2Iters \in 0..MaxIter
    /\ <<employee_name, department>> \in {employees[i] : i \in 1..Len(employees)}
    /\ Len(now) = Len(report)
    /\ Len(report) <= 1
    /\ failures \in 0..units

\* ------------------------------------------------------------ claims
\* index of the last "starting" line of the log (0: none)
LastStart ==
    LET S == {i \in 1..Len(log) : log[i] = "starting"}
    IN  IF S = {} THEN 0 ELSE CHOOSE i \in S : \A j \in S : j <= i

\* "stopped" lines written since the simulation was last started
StoppedInRun ==
    Cardinality({i \in (LastStart + 1)..Len(log) : log[i] = "stopped"})

\* C1: when a single KeyboardInterrupt found the main thread inside the
\* running loop (in a unit of work, a pause, the backoff, or between
\* iterations), the program ends normally, having called stop_simulation,
\* then generate_daily_report exactly once, and printed the report.
C1_InterruptStopsReportsExits ==
    (pc \in {"done", "crashed"} /\ interrupts = 1 /\ firstInt \in {"try", "workday"})
        => /\ pc = "done"
           /\ Count(log, "report") = 1
           /\ Count(stdout, "report") = 1
           /\ \E i, j \in 1..Len(log) :
                i < j /\ log[i] = "stopped" /\ log[j] = "report"

\* C2: whenever start_simulation has returned, is_running is False.
C2_ReturnedImpliesStopped ==
    pc = "start_returned" => ~is_running

\* C3: while is_running is False no unit of work begins.
C3_NoWorkAfterStop ==
    [][~is_running => ~(pc # "act" /\ pc' = "act")]_vars

\* C4: after stop_simulation was called during a pause, less than one
\* second passes before the loop has exited.
C4_StopWakesPause ==
    sinceStop < 1

\* C5: the stop_simulation calls made since the simulation was started (by
\* the second thread, by an except clause of the main thread) leave at most
\* one "stopped" line for the run: the later call finds the simulation
\* stopped and adds nothing.
C5_StopIdempotent ==
    LastStart > 0 => StoppedInRun <= 1

\* C6: an Exception raised while an iteration executes a unit of work is
\* taken by the loop's handler with is_running unchanged; the handler then
\* sleeps exactly 60 s, and after the sleep the loop is back at its test.
C6_ErrorsAbsorbedWithBackoff ==
    [][ /\ (~failed /\ failed')
            => (pc' = "err_handler" /\ is_running' = is_running)
        /\ (pc = "err_handler" /\ pc' # pc /\ interrupts' = interrupts)
            => (pc' = "backoff" /\ sleepLeft' = BackoffSeconds)
        /\ (pc = "backoff" /\ pc' # pc /\ interrupts' = interrupts)
            => (pc' = "loop_check" /\ sleepLeft = 0) ]_vars

\* C8: for every category, once a failure has occurred inside the unit of
\* work the main thread is in the loop's error handler, in its backoff, or
\* back at the loop test; it is never carrying on as if the unit succeeded.
C8_FailuresReachLoopHandler ==
    \A c \in ActivityCategory :
        (failed /\ executed # <<>> /\ executed[Len(executed)] = c)
            => pc \in {"err_handler", "backoff", "loop_check"}

\* C9: in an AfterHours iteration the only unit of work that runs is the
\* security action, at most once; otherwise none runs.
C9_AfterHoursOnlySecurity ==
    regime = "AfterHours"
        => /\ executed \in {<< >>, <<"security">>}
           /\ activity \in {"none", "security"}

\* C9 witness: an AfterHours iteration that ran the security action and is
\* now in its pause.
C9_Witness ==
    regime = "AfterHours" /\ executed = <<"security">> /\ pc = "pace"

\* hours 9..17 written out
WorkHourSet == {9, 10, 11, 12, 13, 14, 15, 16, 17}

FailedEntries == Count(log, "error") + Count(log, "app_error")

\* lines of the log that report a unit of work as done
SuccessEntries ==
    Cardinality({i \in 1..Len(log) : log[i] \in ActivityCategory})

\* positions of the main thread inside the loop, its handlers excepted
InLoop == {"loop_check", "decide", "select", "after_flip", "act", "pace",
           "backoff"}

\* C11: while the loop runs, and once the handler of a failure has written
\* its line, the log holds exactly one Failed entry for each unit of work in
\* which an Exception was raised, whatever the category and the step of the
\* unit at which it was raised.
C11_OneFailedEntryPerFailure ==
    pc \in InLoop => FailedEntries = failures

\* C11: a unit of work failed in the first iteration, and the unit of the
\* second iteration has returned without a failure.
C11_Witness ==
    /\ pc = "pace"
    /\ units = 2
    /\ failures = 1
    /\ FailedEntries = 1
    /\ ~failed
    /\ executed # <<>>

\* C12: whenever the loop is about to select, the log holds one outcome
\* entry for each unit of work executed so far; when none of them failed
\* these are all Success entries; and the loop is still running as long as
\* stop_simulation has not been called.
C12_OutcomeLoggedBeforeSelection ==
    pc \in {"select", "after_flip"}
        => /\ SuccessEntries + FailedEntries = units
           /\ (failures = 0 => SuccessEntries = units)
           /\ (stops = 0 => is_running)

\* the bounds of the pause of a regime
PauseRange(r) ==
    IF r = "WorkHours" THEN WorkPauseMin..WorkPauseMax
                       ELSE AfterPauseMin..AfterPauseMax

\* the step from the pause or the backoff back to the loop's test
IterationEnds == pc \in {"pace", "backoff"} /\ pc' = "loop_check"

\* a pause begins with a duration in the regime's range and only runs down
PauseWithinRegime ==
    /\ (pc # "pace" /\ pc' = "pace") => sleepLeft' \in PauseRange(regime')
    /\ (pc = "pace" /\ pc' = "pace") => sleepLeft' <= sleepLeft

\* C13: an iteration ends through one pause of its regime's range: a
\* WorkHours iteration when its activity succeeded, an AfterHours iteration
\* always, whether or not a security action ran in it and however it ended.
C13_PacedByRegime ==
    [][/\ PauseWithinRegime
       /\ (IterationEnds /\ (regime = "AfterHours" \/ ~failed))
             => pc = "pace"]_vars

\* C13 (amended): an iteration in which nothing was raised ends through one
\* pause of its regime's range, whether or not a security action ran in it;
\* an AfterHours iteration whose security action raised ends through the
\* backoff of BackoffSeconds instead.
C13_PacedUnlessFailed ==
    [][/\ PauseWithinRegime
       /\ (IterationEnds /\ ~failed) => pc = "pace"
       /\ (IterationEnds /\ regime = "AfterHours" /\ failed) => pc = "backoff"
       /\ (pc # "backoff" /\ pc' = "backoff") => sleepLeft' = BackoffSeconds
       /\ (pc = "backoff" /\ pc' = "backoff") => sleepLeft' <= sleepLeft]_vars

\* C13: the backoff that follows a failed AfterHours security action is over.
C13_Witness ==
    /\ pc = "backoff"
    /\ regime = "AfterHours"
    /\ executed = <<"security">>
    /\ failed
    /\ sleepLeft = 0

\* C14: the main thread's loop and the loop of a further caller of
\* start_simulation are never both executing a unit of work.
C14_SingleLoop ==
    ~(pc = "act" /\ t2Pc = "act")

\* a security action of the main thread has written its "Security action"
\* line and has not yet appended its record
RecordPending == pc = "act" /\ activity = "security" /\ stepIdx = 2

\* C15: security_events.log holds one record, with an ip_address
\* 192.168.1.N where 100 <= N <= 200, for each "Security action" line of the
\* log; only a security action writes to it, and a write appends one record
\* and leaves the earlier ones as they were.
C15_SinkMatchesSecurityLines ==
    /\ [](/\ ~RecordPending => Len(security_events) = Count(log, "security")
          /\ \A i \in 1..Len(security_events) :
                /\ SubSeq(security_events[i].ip_address, 1, 3) = <<192, 168, 1>>
                /\ security_events[i].ip_address[4] \in IpMin..IpMax)
    /\ [][security_events' # security_events
            => /\ pc = "act" /\ activity = "security"
               /\ Len(security_events') = Len(security_events) + 1
               /\ SubSeq(security_events', 1, Len(security_events))
                    = security_events]_vars

\* C16: the report of generate_daily_report has its counters within their
\* ranges, the date of the moment of the call, and the employee and the
\* department the simulator was constructed with, however many units of work
\* have run.
C16_ReportWithinRanges ==
    \A i \in 1..Len(report) :
        /\ report[i].files_created \in 5..15
        /\ report[i].applications_used \in 3..8
        /\ report[i].network_activities \in 10..25
        /\ report[i].security_events \in 2..8
        /\ report[i].suspicious_activities \in 0..2
        /\ report[i].date = <<now[i].year, now[i].month, now[i].day>>
        /\ report[i].employee = employee_name
        /\ report[i].department = department
        /\ <<employee_name, department>>
             \in {employees[j] : j \in 1..Len(employees)}

\* C16: a report at the top of its ranges, made on the first day of a year
\* for the last employee of the roster after a unit of work has run.
C16_Witness ==
    /\ report # <<>>
    /\ units >= 1
    /\ employee_name = "Lisa Thompson"
    /\ report[1].employee = "Lisa Thompson"
    /\ report[1].files_created = 15
    /\ report[1].suspicious_activities = 2
    /\ report[1].date = <<2025, 1, 1>>

\* C17: a KeyboardInterrupt raised while the main thread is inside
\* simulate_work_day (in the iteration's try block, in the backoff, at the
\* loop's test, in a handler of the loop) is caught by the loop, which logs
\* the interruption and ends start_simulation normally, or by
\* start_simulation, which calls stop_simulation and then returns normally;
\* it does not reach main().
C17_InterruptStaysInside ==
    [][/\ (interrupts' = interrupts + 1 /\ pc \in InLoopTry \cup InWorkDay)
            => \/ pc' = "kbd_handler"
               \/ pc' = "stop_set" /\ caller' = "start"
       /\ (interrupts' = interrupts /\ pc = "kbd_handler" /\ pc' # pc)
            => /\ log' = Append(log, "interrupted")
               /\ pc' = "start_returned"
       /\ (interrupts' = interrupts /\ caller = "start"
              /\ pc = "stop_set" /\ pc' # pc)
            => /\ ~is_running'
               /\ pc' = "stop_log"
       /\ (interrupts' = interrupts /\ caller = "start"
              /\ pc = "stop_log" /\ pc' # pc)
            => pc' = "start_returned"]_vars

\* C17: a KeyboardInterrupt raised in the backoff or at the loop's test was
\* caught by start_simulation, which has called stop_simulation and returned.
C17_Witness ==
    /\ interrupts = 1
    /\ firstInt = "workday"
    /\ caller = "start"
    /\ pc = "start_returned"
    /\ ~is_running
    /\ stops = 0
    /\ Count(log, "stopped") = 1

\* the second thread has just cleared the flag while the main thread is in
\* the loop: in a unit of work, a pause, the backoff, or in between
StopCalledInLoop ==
    /\ extPc = "stop_log"
    /\ ~is_running
    /\ pc \in InLoop \cup {"err_handler"}

\* C18: when the second thread calls stop_simulation while the loop runs,
\* and no KeyboardInterrupt is raised, the loop ends and start_simulation
\* returns, wherever the loop was at the call.
C18_StopEndsLoop ==
    StopCalledInLoop ~> (pc \in {"start_returned", "done"})

\* C18: the loop has ended after a stop called during the backoff of a
\* failed unit of work.
C18_Witness ==
    /\ pc = "start_returned"
    /\ stops = 1
    /\ extPc = "idle"
    /\ interrupts = 0
    /\ failures = 1
    /\ Count(log, "error") = 1
    /\ log[Len(log)] = "stopped"
    /\ log[Len(log) - 1] = "error"

====
